---------------------------- MODULE Spec2Model ----------------------------
(***************************************************************************)
(* A model of src/ResNet/resnet_run.py: the CIFAR-10 input pipeline        *)
(* (input_fn), the learning-rate schedule (learning_rate_with_decay), the  *)
(* gradient stage and the streaming metrics of resnet_model_fn, the        *)
(* construction of Cifar10Model and the training run of resnet_main.       *)
(*                                                                         *)
(* Floating-point values are modelled as exact rationals <<num, den>>;     *)
(* rounding of float32/float64 arithmetic is outside the model.            *)
(***************************************************************************)
EXTENDS Integers, Sequences, FiniteSets, TLC

VARIABLES
    \* ---- learning-rate schedule (learning_rate_with_decay)
    lr_args,        \* the arguments of learning_rate_with_decay
    lr_step,        \* the global_step the schedule was last evaluated at (-1: not yet)
    lr_rate,        \* the rate learning_rate_fn returned for lr_step
    \* ---- input pipeline (input_fn)
    in_args,        \* the arguments of input_fn and the number of records in the shards
    epoch,          \* the repetition of the file stream being read (1..num_epochs)
    reader_pos,     \* the next record the shard reader yields in this repetition
    record_buf,     \* records held by prefetch(buffer_size=batch_size), each
                    \* <<record, repetition it was read in>>
    shuffle_buf,    \* records held by shuffle(buffer_size=shuffle_buffer)
    cur_batch,      \* the group batch() is assembling
    batch_buf,      \* batches held by the final prefetch
    buffer_limit,   \* the final prefetch's current depth (autotuned)
    tuner_mode,     \* the prefetch autotuner's mode
    producer,       \* the final prefetch's thread: "wait" (for room), "fill" (inside
                    \* batch()), "push" (holding a batch) or "end"
    delivered,      \* the batches get_next has returned, in order
    consumer_done,  \* get_next has reported the end of the sequence
    image,          \* the image parse_record_fn produced last
    \* ---- gradient stage (resnet_model_fn, mode TRAIN)
    tr_args,        \* fine_tune, loss_scale and batch_size of the model function
    weights,        \* the value of every trainable variable, by name
    momenta,        \* the optimizer's momentum accumulator of every trainable variable
    moving_stats,   \* the normalization layers' running statistics (not trainable)
    global_step,    \* the global step
    updates,        \* how many times train_op has run
    applied,        \* the names handed to apply_gradients by the last train_op
    \* ---- the run (run_cifar, resnet_main, Estimator.train)
    flags,          \* the parsed flags, and whether data_dir exists
    run_pc,         \* where the run is
    events,         \* what the run has done so far, in order
    steps_done,     \* the runs of train_op in this call of train
    metric,         \* the accuracy reported at the last step boundary
    \* ---- model construction (Cifar10Model.__init__)
    model_args,     \* resnet_size and resnet_version given to Cifar10Model
    model,          \* the arguments the base class was constructed with, or NoModel
    raised,         \* the exception the constructor raised, "" if none
    \* ---- streaming metrics (resnet_model_fn, lines 261-264 and 364-374)
    examples,       \* every <<logits, label>> the metrics' update ops were run on
    acc_total,      \* 'accuracy': the sum of is_correct
    acc_count,      \* 'accuracy': the number of examples
    top5_total,     \* 'accuracy_top_5': the sum of in_top_k
    top5_count,     \* 'accuracy_top_5': the number of examples
    accuracy,       \* the value the 'accuracy' update op returned last
    accuracy_top_5  \* the value the 'accuracy_top_5' update op returned last

lrVars == <<lr_args, lr_step, lr_rate>>

pipeVars == <<in_args, epoch, reader_pos, record_buf, shuffle_buf, cur_batch, batch_buf,
              buffer_limit, tuner_mode, producer, delivered, consumer_done, image>>

trainVars == <<tr_args, weights, momenta, moving_stats, global_step, updates, applied>>

runVars == <<flags, run_pc, events, steps_done, metric>>

modelVars == <<model_args, model, raised>>

metricVars == <<examples, acc_total, acc_count, top5_total, top5_count, accuracy,
                accuracy_top_5>>

otherThanLR == <<pipeVars, trainVars, runVars, modelVars, metricVars>>
otherThanPipe == <<lrVars, trainVars, runVars, modelVars, metricVars>>
otherThanTrain == <<lrVars, pipeVars, runVars, modelVars, metricVars>>
otherThanRun == <<lrVars, pipeVars, trainVars, modelVars, metricVars>>
otherThanModel == <<lrVars, pipeVars, trainVars, runVars, metricVars>>
otherThanMetric == <<lrVars, pipeVars, trainVars, runVars, modelVars>>

vars == <<lr_args, lr_step, lr_rate,
          in_args, epoch, reader_pos, record_buf, shuffle_buf, cur_batch, batch_buf,
          buffer_limit, tuner_mode, producer, delivered, consumer_done, image,
          tr_args, weights, momenta, moving_stats, global_step, updates, applied,
          flags, run_pc, events, steps_done, metric,
          model_args, model, raised,
          examples, acc_total, acc_count, top5_total, top5_count, accuracy,
          accuracy_top_5>>

-----------------------------------------------------------------------------
(* Exact rational arithmetic: <<n, d>> with d > 0 in lowest terms.  A      *)
(* division of tensors by zero yields NonFinite (the float result is inf   *)
(* or nan); Python's / raises ZeroDivisionError instead.                   *)

RECURSIVE Gcd(_, _)
Gcd(a, b) == IF b = 0 THEN a ELSE Gcd(b, a % b)

Abs(x) == IF x < 0 THEN -x ELSE x

NonFinite == <<0, 0>>

Rat(n, d) ==
    IF d = 0 THEN NonFinite
    ELSE LET g == Gcd(Abs(n), Abs(d))
             s == IF d < 0 THEN -1 ELSE 1
         IN  <<(s * n) \div g, (s * d) \div g>>

RInt(n) == <<n, 1>>

RMul(a, b) == IF a = NonFinite \/ b = NonFinite THEN NonFinite
              ELSE Rat(a[1] * b[1], a[2] * b[2])

RDiv(a, b) == IF a = NonFinite \/ b = NonFinite THEN NonFinite
              ELSE Rat(a[1] * b[2], a[2] * b[1])

RAdd(a, b) == IF a = NonFinite \/ b = NonFinite THEN NonFinite
              ELSE Rat(a[1] * b[2] + b[1] * a[2], a[2] * b[2])

RSub(a, b) == IF a = NonFinite \/ b = NonFinite THEN NonFinite
              ELSE Rat(a[1] * b[2] - b[1] * a[2], a[2] * b[2])

RLess(a, b) == a[1] * b[2] < b[1] * a[2]

ZeroDivisionError == <<"ZeroDivisionError">>

\* Python's  a / b  on numbers.
truediv(a, b) == IF b[1] = 0 THEN ZeroDivisionError ELSE RDiv(a, b)

(* int(n / b * e) as Python computes it in float64, for integers n, e >= 0 *)
(* and 0 < b < 2^15 with n * e < 2^31.  The quotient n / b is rounded to   *)
(* 53 significant bits, the product with e is rounded again, and int()     *)
(* truncates.  When n * e / b is not an integer the rounding cannot reach  *)
(* the next integer; when it is an integer N the result is N - 1 exactly   *)
(* when the quotient was rounded down by more than half the distance from  *)
(* N to the float below it.                                                *)

\* The exponent of n / b: the t with 2^t <= n / b < 2^(t+1).
RECURSIVE ExponentUp(_, _, _)
ExponentUp(n, b, t) == IF b * 2^(t + 1) <= n THEN ExponentUp(n, b, t + 1) ELSE t

RECURSIVE ExponentDown(_, _, _)
ExponentDown(n, b, s) == IF n * 2^s < b THEN ExponentDown(n, b, s + 1) ELSE -s

Exponent(n, b) == IF n >= b THEN ExponentUp(n, b, 0) ELSE ExponentDown(n, b, 1)

RECURSIVE PowMod2(_, _)
PowMod2(k, b) == IF k = 0 THEN 1 % b ELSE (2 * PowMod2(k - 1, b)) % b

int_of_float_product(n, b, e) ==
    IF n = 0 \/ e = 0 THEN 0
    ELSE IF (n * e) % b # 0 THEN (n * e) \div b
    ELSE LET N == (n * e) \div b
             eq == Exponent(n, b)
             \* what n / b * 2^(52 - eq) leaves over its integer part, in b-ths
             r == ((n % b) * PowMod2(52 - eq, b)) % b
             eN == Exponent(N, 1)
             half == IF N = 2^eN THEN 4 ELSE 2
         IN  IF r # 0 /\ 2 * r < b /\ half * r * e > b * 2^(eN - eq)
             THEN N - 1
             ELSE N

-----------------------------------------------------------------------------
(* learning_rate_with_decay (lines 384-409), the step-decay variant.       *)

initial_learning_rate(a) ==
    truediv(RMul(a.base_lr, RInt(a.batch_size)), RInt(a.batch_denom))

batches_per_epoch(a) == truediv(RInt(a.num_images), RInt(a.batch_size))

boundaries(a) ==
    [k \in 1..Len(a.boundary_epochs) |->
        int_of_float_product(a.num_images, a.batch_size, a.boundary_epochs[k])]

vals(a) ==
    [k \in 1..Len(a.decay_rates) |->
        RMul(initial_learning_rate(a), a.decay_rates[k])]

(* tf.compat.v1.train.piecewise_constant(x, b, v): a case over the         *)
(* predicates x <= b[1], x > b[n] and b[k] < x <= b[k+1], defaulting to    *)
(* v[1].  With b in non-decreasing order at most one predicate holds.      *)
piecewise_constant_strict(x, b, v) ==
    LET n == Len(b)
        pred(i) == IF i = 1 THEN x < b[1]
                   ELSE IF i = n + 1 THEN x >= b[n]
                   ELSE x >= b[i - 1] /\ x < b[i]
        hits == {i \in 1..(n + 1) : pred(i)}
    IN  IF hits = {} THEN v[1] ELSE v[CHOOSE i \in hits : TRUE]

piecewise_constant(x, b, v) ==
    LET n == Len(b)
        pred(i) == IF i = 1 THEN x <= b[1]
                   ELSE IF i = n + 1 THEN x > b[n]
                   ELSE x > b[i - 1] /\ x <= b[i]
        hits == {i \in 1..(n + 1) : pred(i)}
    IN  IF hits = {} THEN v[1] ELSE v[CHOOSE i \in hits : TRUE]

warmup_steps(a) == int_of_float_product(a.num_images, a.batch_size, 5)

warmup_lr(a, step) ==
    RDiv(RMul(initial_learning_rate(a), RInt(step)), RInt(warmup_steps(a)))

learning_rate_fn_late(a, step) ==
    LET lr == piecewise_constant(step, boundaries(a), vals(a))
    IN  IF a.warmup
        THEN IF step <= warmup_steps(a) THEN warmup_lr(a, step) ELSE lr
        ELSE lr

learning_rate_fn(a, step) ==
    LET lr == piecewise_constant(step, boundaries(a), vals(a))
    IN  IF a.warmup
        THEN IF step < warmup_steps(a) THEN warmup_lr(a, step) ELSE lr
        ELSE lr

\* tf.train.polynomial_decay(rate, step, decay_steps, power=2.0), whose
\* end_learning_rate defaults to 0.0001.
polynomial_decay(rate, step, decay_steps) ==
    LET end_learning_rate == Rat(1, 10000)
        capped == IF RLess(decay_steps, step) THEN decay_steps ELSE step
        left == RSub(RInt(1), RDiv(capped, decay_steps))
    IN  RAdd(RMul(RSub(rate, end_learning_rate), RMul(left, left)), end_learning_rate)

\* poly_rate_fn (lines 411-452), the schedule returned with enable_lars.
\* The batch_size flag it reads is the batch_size cifar10_model_fn passes.
poly_rate_fn(a, step) ==
    LET plr == IF a.batch_size < 8192 THEN 5
               ELSE IF a.batch_size < 16384 THEN 10
               ELSE IF a.batch_size < 32768 THEN 25 ELSE 32
        w_epochs == IF a.batch_size < 32768 THEN 5 ELSE 14
        w_steps == int_of_float_product(a.num_images, a.batch_size, w_epochs)
        wrate == RDiv(RMul(RInt(plr), RInt(step)), RInt(w_steps))
        train_steps == RMul(batches_per_epoch(a), RInt(90))
        decay_steps == IF step - w_steps > 1 THEN step - w_steps ELSE 1
        poly_rate == polynomial_decay(RInt(plr), RInt(decay_steps),
                                      RAdd(RSub(train_steps, RInt(w_steps)), RInt(1)))
    IN  IF step <= w_steps THEN wrate ELSE poly_rate

\* learning_rate_with_decay itself: lines 389-390 raise ZeroDivisionError
\* for a zero batch_denom or batch_size; otherwise it returns poly_rate_fn
\* with enable_lars and learning_rate_fn without (lines 455-458).
learning_rate_with_decay(a, enable_lars) ==
    IF initial_learning_rate(a) = ZeroDivisionError
          \/ batches_per_epoch(a) = ZeroDivisionError
    THEN ZeroDivisionError
    ELSE IF enable_lars THEN <<"poly_rate_fn">> ELSE <<"learning_rate_fn">>

-----------------------------------------------------------------------------
(* The schedule's inputs.                                                  *)

MaxLRStep == 16

\* 15 images in batches of 11 with a boundary at epoch 11 is an input whose
\* boundary the float64 product puts at 14, one below 15 * 11 / 11.
LRBatchSizes == {0, 2, 3, 11, 128}
LRNumImages == {8, 15, 48000}
LRBoundaryEpochs == {<<1>>, <<11>>, <<1, 2>>, <<1, 3>>, <<2, 2>>, <<4, 5>>, <<1, 2, 4>>}

LRArgs ==
    {a \in [batch_size : LRBatchSizes, batch_denom : {32, 2, 0}, num_images : LRNumImages,
            boundary_epochs : LRBoundaryEpochs,
            decay_rates : {<<RInt(1), Rat(1, 10)>>, <<Rat(1, 2), Rat(1, 10)>>,
                           <<RInt(1), Rat(1, 10), Rat(1, 100)>>,
                           <<RInt(1), Rat(1, 10), Rat(1, 100), Rat(1, 1000)>>},
            base_lr : {Rat(1, 10)}, warmup : BOOLEAN] :
        /\ Len(a.decay_rates) = Len(a.boundary_epochs) + 1
        /\ (a.batch_size = 11) = (a.num_images = 15)
        /\ (a.batch_size = 11) = (a.boundary_epochs = <<11>>)}

LRStart ==
    /\ lr_step = -1
    /\ lr_rate = RInt(0)

LRIdle ==
    /\ lr_args = [batch_size |-> 128, batch_denom |-> 32, num_images |-> 48000,
                  boundary_epochs |-> <<91, 126, 182>>,
                  decay_rates |-> <<RInt(1), Rat(1, 10), Rat(1, 100), Rat(1, 1000)>>,
                  base_lr |-> Rat(1, 10), warmup |-> FALSE]
    /\ LRStart

\* learning_rate_with_decay raises: no schedule exists.
ScheduleRaises ==
    /\ learning_rate_with_decay(lr_args, FALSE) = ZeroDivisionError
    /\ lr_rate # ZeroDivisionError
    /\ lr_rate' = ZeroDivisionError
    /\ UNCHANGED <<lr_args, lr_step>>
    /\ UNCHANGED otherThanLR

\* One evaluation of learning_rate_fn(global_step).
EvalLearningRate ==
    \E s \in 0..MaxLRStep :
        /\ learning_rate_with_decay(lr_args, FALSE) = <<"learning_rate_fn">>
        /\ lr_step' = s
        /\ lr_rate' = learning_rate_fn(lr_args, s)
        /\ UNCHANGED lr_args
        /\ UNCHANGED otherThanLR

LRNext ==
    \/ ScheduleRaises
    \/ EvalLearningRate

-----------------------------------------------------------------------------
(* The gradient stage: resnet_model_fn in mode TRAIN (lines 306-360),      *)
(* called by cifar10_model_fn (lines 462-488).  A variable name is the     *)
(* sequence of its characters, so that 'dense' in v.name is a substring    *)
(* test.  The values MomentumOptimizer produces are exact rationals; the   *)
(* values LARSOptimizer produces are kept as the expressions it evaluates, *)
(* <<operation, operand, operand>>, since their exact values leave the     *)
(* range of the integers.                                                  *)

NUM_IMAGES_TRAIN == 48000

CONV_KERNEL == <<"c", "o", "n", "v", "2", "d", "/", "k", "e", "r", "n", "e", "l", ":", "0">>
BN_GAMMA == <<"b", "a", "t", "c", "h", "_", "n", "o", "r", "m", "a", "l", "i", "z", "a", "t", "i", "o", "n", "/", "g", "a", "m", "m", "a", ":", "0">>
DENSE_KERNEL == <<"d", "e", "n", "s", "e", "/", "k", "e", "r", "n", "e", "l", ":", "0">>
DENSE_BIAS == <<"d", "e", "n", "s", "e", "/", "b", "i", "a", "s", ":", "0">>

\* tf.compat.v1.trainable_variables() of the network, in creation order.
trainable_variables == <<CONV_KERNEL, BN_GAMMA, DENSE_KERNEL, DENSE_BIAS>>

TrainableNames == {trainable_variables[i] : i \in 1..Len(trainable_variables)}

\* The parameters of the final classification layer of the network.
FinalLayer == {DENSE_KERNEL, DENSE_BIAS}

\* Python's  sub in name  on strings.
Contains(name, sub) ==
    \E i \in 1..(Len(name) - Len(sub) + 1) : SubSeq(name, i, i + Len(sub) - 1) = sub

\* optimizer.compute_gradients(loss * scale): one (gradient, variable) pair
\* per trainable variable; g[v] is d loss / d v.
compute_gradients(g, scale) ==
    [i \in 1..Len(trainable_variables) |->
        <<RMul(g[trainable_variables[i]], scale), trainable_variables[i]>>]

IsDense(gv) == Contains(gv[2], <<"d", "e", "n", "s", "e">>)

_dense_grad_filter_keeps_all(gvs) == gvs

_dense_grad_filter(gvs) == SelectSeq(gvs, IsDense)

\* The pairs resnet_model_fn hands to apply_gradients (lines 339-357).
grad_vars(a, g) ==
    IF a.loss_scale # RInt(1)
    THEN LET scaled == compute_gradients(g, a.loss_scale)
             kept == IF a.fine_tune THEN _dense_grad_filter(scaled) ELSE scaled
         IN  [i \in 1..Len(kept) |-> <<RDiv(kept[i][1], a.loss_scale), kept[i][2]>>]
    ELSE LET plain == compute_gradients(g, RInt(1))
         IN  IF a.fine_tune THEN _dense_grad_filter(plain) ELSE plain

momentum == Rat(9, 10)

\* cifar10_model_fn's schedule (lines 466-469).
cifar10_lr_args(batch) ==
    [batch_size |-> batch, batch_denom |-> 32, num_images |-> NUM_IMAGES_TRAIN,
     boundary_epochs |-> <<91, 126, 182>>,
     decay_rates |-> <<RInt(1), Rat(1, 10), Rat(1, 100), Rat(1, 1000)>>,
     base_lr |-> Rat(1, 10), warmup |-> FALSE]

GradOf(gvs, v) == (CHOOSE i \in 1..Len(gvs) : gvs[i][2] = v)

Listed(gvs) == {gvs[i][2] : i \in 1..Len(gvs)}

weight_decay == Rat(2, 10000)

\* LARSOptimizer(skip_list=['batch_normalization', 'bias']) (line 320).
skip_list == {<<"b", "a", "t", "c", "h", "_", "n", "o", "r", "m", "a", "l", "i", "z", "a", "t", "i", "o", "n">>,
              <<"b", "i", "a", "s">>}

\* LARSOptimizer.compute_lr: outside the skip list the rate is multiplied by
\* the trust ratio of the variable and the gradient, and weight_decay * var
\* is added to the gradient.
lars_compute_lr(lr, grad, value, name) ==
    IF \E skip \in skip_list : Contains(name, skip)
    THEN [lr |-> lr, grad |-> grad]
    ELSE [lr |-> <<"mul", lr, <<"trust_ratio", value, grad>>>>,
          grad |-> <<"add", grad, <<"mul", weight_decay, value>>>>]

\* The new accumulator and value of a listed variable.  MomentumOptimizer:
\* accum = momentum * accum + grad, var = var - lr * accum.  LARSOptimizer:
\* accum = momentum * accum + grad * scaled_lr, var = var - accum.
apply_dense(enable_lars, lr, grad, name, value, accum) ==
    IF enable_lars
    THEN LET c == lars_compute_lr(lr, grad, value, name)
             acc == <<"add", <<"mul", momentum, accum>>, <<"mul", c.grad, c.lr>>>>
         IN  [accum |-> acc, value |-> <<"sub", value, acc>>]
    ELSE LET acc == RAdd(RMul(momentum, accum), grad)
         IN  [accum |-> acc, value |-> RSub(value, RMul(lr, acc))]

\* optimizer.apply_gradients(gvs, global_step): every listed variable is
\* updated, then global_step is incremented.
apply_gradients_without_step(enable_lars, gvs, lr, w, m, gs) ==
    LET new == [v \in Listed(gvs) |->
                  apply_dense(enable_lars, lr, gvs[GradOf(gvs, v)][1], v, w[v], m[v])]
    IN  [weights |-> [v \in TrainableNames |->
                        IF v \in Listed(gvs) THEN new[v].value ELSE w[v]],
         momenta |-> [v \in TrainableNames |->
                        IF v \in Listed(gvs) THEN new[v].accum ELSE m[v]],
         global_step |-> gs]

apply_gradients(enable_lars, gvs, lr, w, m, gs) ==
    LET new == [v \in Listed(gvs) |->
                  apply_dense(enable_lars, lr, gvs[GradOf(gvs, v)][1], v, w[v], m[v])]
    IN  [weights |-> [v \in TrainableNames |->
                        IF v \in Listed(gvs) THEN new[v].value ELSE w[v]],
         momenta |-> [v \in TrainableNames |->
                        IF v \in Listed(gvs) THEN new[v].accum ELSE m[v]],
         global_step |-> gs + 1]

MaxTrainSteps == 2

Grads == {RInt(-1), RInt(1)}
MovingValues == {0, 1}

TrainStart ==
    /\ weights = [v \in TrainableNames |-> RInt(1)]
    /\ momenta = [v \in TrainableNames |-> RInt(0)]
    /\ moving_stats = 0
    /\ global_step = tr_args.start_step
    /\ updates = 0
    /\ applied = {}

TrainIdle ==
    /\ tr_args = [fine_tune |-> FALSE, loss_scale |-> RInt(1), batch_size |-> 16,
                  start_step |-> 0, enable_lars |-> FALSE]
    /\ TrainStart

\* learning_rate_fn(global_step) of line 309, with the function that
\* learning_rate_with_decay returned to cifar10_model_fn.
learning_rate(a, step) ==
    LET schedule == cifar10_lr_args(a.batch_size)
    IN  IF learning_rate_with_decay(schedule, a.enable_lars) = <<"poly_rate_fn">>
        THEN poly_rate_fn(schedule, step)
        ELSE learning_rate_fn(schedule, step)

\* One run of train_op = group(minimize_op, update_ops) (line 360): the
\* optimizer update and the normalization layers' update of their running
\* statistics.
TrainStep ==
    /\ updates < MaxTrainSteps
    /\ \E lr \in {learning_rate(tr_args, global_step)} :
       \E g \in [TrainableNames -> Grads], stats \in MovingValues :
       \E gvs \in {grad_vars(tr_args, g)} :
       \E new \in {apply_gradients(tr_args.enable_lars, gvs, lr, weights, momenta,
                                   global_step)} :
          /\ weights' = new.weights
          /\ momenta' = new.momenta
          /\ global_step' = new.global_step
          /\ applied' = Listed(gvs)
          /\ moving_stats' = stats
    /\ updates' = updates + 1
    /\ UNCHANGED tr_args
    /\ UNCHANGED otherThanTrain

TrainNext == TrainStep

\* With enable_lars the steps stay inside the warmup of poly_rate_fn (15000
\* steps for batches of 16, 1875 for batches of 128), where the rate is an
\* exact rational within the range of the integers.
TrainArgs ==
    {a \in [fine_tune : BOOLEAN, loss_scale : {RInt(1), RInt(128)}, batch_size : {16, 128},
            start_step : {0, 2000}, enable_lars : BOOLEAN] :
        a.enable_lars => (a.batch_size = 16 \/ a.start_step = 0)}

-----------------------------------------------------------------------------
(* The run: run_cifar (lines 580-600), resnet_main (lines 185-242) and the *)
(* Estimator's train(input_fn, steps): it calls input_fn, then model_fn,   *)
(* then runs train_op until `steps` steps are done or the input ends.      *)

TRAIN_STEPS == 2000
INPUT_EPOCHS == 20

MaxMetric == 2

Cifar10ModelAcceptsAll(resnet_size) == TRUE

\* Cifar10Model.__init__ (lines 164-165): whether resnet_size is accepted.
Cifar10ModelAccepts(resnet_size) == resnet_size % 6 = 2

\* The batches input_fn_train(num_epochs=20) yields (drop_remainder false).
InputBatches(batch) == (INPUT_EPOCHS * NUM_IMAGES_TRAIN + batch - 1) \div batch

RunStart ==
    /\ run_pc = "start"
    /\ events = <<>>
    /\ steps_done = 0
    /\ metric = 0

RunIdle ==
    /\ flags = [mode |-> "train", resnet_size |-> 56, train_epochs |-> 182,
                stop_threshold |-> {}, batch_size |-> 16, data_dir_exists |-> TRUE]
    /\ RunStart

\* run_cifar: mode "train" goes to resnet_main, any other mode only logs.
RunCifar ==
    /\ run_pc = "start"
    /\ IF flags.mode = "train"
       THEN /\ run_pc' = "resnet_main"
            /\ events' = Append(events, "starting training")
       ELSE /\ run_pc' = "returned"
            /\ events' = Append(events, "testing")
    /\ UNCHANGED <<flags, steps_done, metric>>
    /\ UNCHANGED otherThanRun

\* resnet_main builds the Estimator (lines 201-223) and calls train.
BuildEstimator ==
    /\ run_pc = "resnet_main"
    /\ run_pc' = "input_fn"
    /\ events' = Append(events, "Estimator")
    /\ UNCHANGED <<flags, steps_done, metric>>
    /\ UNCHANGED otherThanRun

\* train calls input_fn_train: get_filenames asserts that data_dir exists,
\* then input_fn builds the dataset.
CallInputFn ==
    /\ run_pc = "input_fn"
    /\ IF flags.data_dir_exists
       THEN /\ run_pc' = "model_fn"
            /\ events' = events \o <<"get_filenames", "dataset">>
       ELSE /\ run_pc' = "failed"
            /\ events' = Append(events, "AssertionError")
    /\ UNCHANGED <<flags, steps_done, metric>>
    /\ UNCHANGED otherThanRun

\* train calls cifar10_model_fn, whose resnet_model_fn constructs the model
\* (line 257): Cifar10Model raises ValueError unless resnet_size is 6n+2.
CallModelFn ==
    /\ run_pc = "model_fn"
    /\ IF Cifar10ModelAccepts(flags.resnet_size)
       THEN /\ run_pc' = "loop"
            /\ events' = Append(events, "Cifar10Model")
       ELSE /\ run_pc' = "failed"
            /\ events' = Append(events, "ValueError")
    /\ UNCHANGED <<flags, steps_done, metric>>
    /\ UNCHANGED otherThanRun

\* One run of train_op on the next batch.
RunTrainOp ==
    /\ run_pc = "loop"
    /\ steps_done < TRAIN_STEPS
    /\ steps_done < InputBatches(flags.batch_size)
    /\ steps_done' = steps_done + 1
    /\ metric' \in 0..MaxMetric
    /\ UNCHANGED <<flags, run_pc, events>>
    /\ UNCHANGED otherThanRun

\* train returns after steps=2000 steps, or when the input is exhausted.
TrainReturns ==
    /\ run_pc = "loop"
    /\ steps_done = TRAIN_STEPS \/ steps_done = InputBatches(flags.batch_size)
    /\ run_pc' = "returned"
    /\ UNCHANGED <<flags, events, steps_done, metric>>
    /\ UNCHANGED otherThanRun

RunNext ==
    \/ RunCifar
    \/ BuildEstimator
    \/ CallInputFn
    \/ CallModelFn
    \/ RunTrainOp
    \/ TrainReturns

RunFlags ==
    [mode : {"train", "evaluate", "test"}, resnet_size : {55, 56},
     train_epochs : {1, 182}, stop_threshold : {{}, {1}}, batch_size : {16, 1024},
     data_dir_exists : BOOLEAN]

-----------------------------------------------------------------------------
(* Cifar10Model.__init__ (lines 148-182).  Python's % and // round towards *)
(* minus infinity, as % and \div do here.                                  *)

NUM_CLASSES == 10

MaxResnetSize == 60

num_blocks(resnet_size) == (resnet_size - 2) \div 6

ModelStart ==
    /\ model = {}
    /\ raised = ""

ModelIdle ==
    /\ model_args = [resnet_size |-> 56, resnet_version |-> 1]
    /\ ModelStart

\* The constructor: it raises ValueError unless resnet_size is 6n+2, and
\* otherwise constructs the base class with three groups of num_blocks blocks.
Cifar10ModelInit ==
    /\ model = {}
    /\ raised = ""
    /\ IF Cifar10ModelAccepts(model_args.resnet_size)
       THEN /\ model' = {[resnet_size |-> model_args.resnet_size,
                          bottleneck |-> FALSE,
                          num_classes |-> NUM_CLASSES,
                          num_filters |-> 16,
                          kernel_size |-> 3,
                          conv_stride |-> 1,
                          block_sizes |-> [i \in 1..3 |->
                                             num_blocks(model_args.resnet_size)],
                          block_strides |-> <<1, 2, 2>>,
                          resnet_version |-> model_args.resnet_version]}
            /\ raised' = ""
       ELSE /\ model' = {}
            /\ raised' = "ValueError"
    /\ UNCHANGED model_args
    /\ UNCHANGED otherThanModel

ModelArgs ==
    [resnet_size : (-MaxResnetSize)..MaxResnetSize, resnet_version : {1, 2}]

-----------------------------------------------------------------------------
(* The streaming metrics of resnet_model_fn: predictions['classes'] (line   *)
(* 262), tf.compat.v1.metrics.accuracy (line 364) and the mean of           *)
(* tf.nn.in_top_k (lines 365-366).  logits[c + 1] is the score of class c.  *)

MaxExamples == 2

Classes == 0..(NUM_CLASSES - 1)

\* tf.argmax over the classes: the first class holding the highest score.
RECURSIVE ArgMaxFrom(_, _, _)
ArgMaxFrom(logits, c, best) ==
    IF c >= NUM_CLASSES THEN best
    ELSE ArgMaxFrom(logits, c + 1, IF logits[c + 1] > logits[best + 1] THEN c ELSE best)

argmax_last(logits) ==
    CHOOSE c \in Classes :
        /\ \A d \in Classes : logits[c + 1] >= logits[d + 1]
        /\ \A d \in Classes : d > c => logits[c + 1] > logits[d + 1]

argmax(logits) == ArgMaxFrom(logits, 1, 0)

\* tf.nn.in_top_k: the target is in the top k when fewer than k classes
\* score strictly more than it does.
RECURSIVE MoreProbable(_, _, _)
MoreProbable(logits, target, c) ==
    IF c >= NUM_CLASSES THEN 0
    ELSE (IF logits[c + 1] > logits[target + 1] THEN 1 ELSE 0)
         + MoreProbable(logits, target, c + 1)

in_top_k(logits, target, k) == MoreProbable(logits, target, 0) < k

\* The sum of a batch of values.
RECURSIVE reduce_sum(_)
reduce_sum(values) ==
    IF values = <<>> THEN 0 ELSE Head(values) + reduce_sum(Tail(values))

\* equal(labels, predictions['classes']) of a batch, cast to float.
is_correct(batch) ==
    [i \in 1..Len(batch) |-> IF batch[i][2] = argmax(batch[i][1]) THEN 1 ELSE 0]

\* in_top_k(predictions=logits, targets=labels, k=5) of a batch, cast to float.
top_5_op(batch) ==
    [i \in 1..Len(batch) |-> IF in_top_k(batch[i][1], batch[i][2], 5) THEN 1 ELSE 0]

\* The value of a mean metric: total / count, 0 while count is 0.
mean_value(total, count) == IF count > 0 THEN Rat(total, count) ELSE RInt(0)

MetricStart ==
    /\ examples = <<>>
    /\ acc_total = 0
    /\ acc_count = 0
    /\ top5_total = 0
    /\ top5_count = 0
    /\ accuracy = RInt(0)
    /\ accuracy_top_5 = RInt(0)

MetricIdle == MetricStart

\* The logits the network may return for an example: all different, all
\* equal, and ties at the top and across the fifth place.
Logits ==
    {<<0, 1, 2, 3, 4, 5, 6, 7, 8, 9>>,
     <<0, 0, 0, 0, 0, 0, 0, 0, 0, 0>>,
     <<1, 5, 5, 4, 4, 4, 4, 4, 0, 0>>}

Examples == Logits \X Classes

\* The batches of n examples.
Batches(n) == [1..n -> Examples]

\* One run of the two update ops (accuracy[1] and accuracy_top_5[1]) on a
\* batch of logits and labels.
UpdateMetrics ==
    \E n \in 1..(MaxExamples - Len(examples)) : \E batch \in Batches(n) :
        /\ examples' = examples \o batch
        /\ acc_total' = acc_total + reduce_sum(is_correct(batch))
        /\ acc_count' = acc_count + Len(batch)
        /\ top5_total' = top5_total + reduce_sum(top_5_op(batch))
        /\ top5_count' = top5_count + Len(batch)
        /\ accuracy' = mean_value(acc_total', acc_count')
        /\ accuracy_top_5' = mean_value(top5_total', top5_count')
        /\ UNCHANGED otherThanMetric

-----------------------------------------------------------------------------
(* preprocess_image (lines 77-89) and parse_record (lines 52-74).  An      *)
(* image is described by its size and by the offset random_crop cut it at. *)

HEIGHT == 32
WIDTH == 32
PAD == 8

NoImage == [padded |-> FALSE, height |-> 0, width |-> 0, oy |-> 0, ox |-> 0]

\* tf.image.random_crop(image, [HEIGHT, WIDTH, NUM_CHANNELS]) of an h x w
\* image: the offset is drawn in 0..(h - HEIGHT) x 0..(w - WIDTH).
random_crop(padded, h, w) ==
    {[padded |-> padded, height |-> HEIGHT, width |-> WIDTH, oy |-> y, ox |-> x] :
        y \in 0..(h - HEIGHT), x \in 0..(w - WIDTH)}

preprocess_image_always_pad(training) ==
    random_crop(TRUE, HEIGHT + PAD, WIDTH + PAD)

\* The set of images preprocess_image may return.
preprocess_image(training) ==
    IF training
    THEN random_crop(TRUE, HEIGHT + PAD, WIDTH + PAD)
    ELSE random_crop(FALSE, HEIGHT, WIDTH)

\* parse_record_fn: parse_record (the default), or a caller's function that
\* leaves the image as decoded.
parse_record_fn(a) ==
    IF a.parse_record_fn = "parse_record"
    THEN preprocess_image(a.is_training)
    ELSE {NoImage}

-----------------------------------------------------------------------------
(* input_fn (lines 91-138): shard reader -> prefetch(batch_size) ->        *)
(* shuffle (training) -> repeat(num_epochs) -> map(parse_record_fn) ->     *)
(* batch(batch_size, drop_remainder) -> prefetch(AUTOTUNE) -> get_next.    *)

MaxRecords == 2
MaxBatch == 3
MaxShuffle == 2
MaxEpochs == 2
MaxPrefetch == 2

PipeStart ==
    /\ epoch = 1
    /\ reader_pos = 1
    /\ record_buf = <<>>
    /\ shuffle_buf = {}
    /\ cur_batch = <<>>
    /\ batch_buf = <<>>
    /\ buffer_limit = 1
    /\ tuner_mode = "upswing"
    /\ producer = "wait"
    /\ delivered = <<>>
    /\ consumer_done = FALSE
    /\ image = NoImage

PipeIdle ==
    /\ in_args = [is_training |-> TRUE, num_records |-> 0, batch_size |-> 1,
                  shuffle_buffer |-> 1, num_epochs |-> 1, drop_remainder |-> FALSE,
                  parse_record_fn |-> "parse_record"]
    /\ PipeStart

\* The reader and prefetch(batch_size) have nothing more for this repetition.
UpstreamExhausted == reader_pos > in_args.num_records /\ record_buf = <<>>

\* prefetch(buffer_size=batch_size): its thread reads the next record of the
\* shards while it holds fewer than batch_size records.
ReadRecord ==
    /\ producer # "end"
    /\ reader_pos <= in_args.num_records
    /\ Len(record_buf) < in_args.batch_size
    /\ record_buf' = Append(record_buf, <<reader_pos, epoch>>)
    /\ reader_pos' = reader_pos + 1
    /\ UNCHANGED <<in_args, epoch, shuffle_buf, cur_batch, batch_buf, buffer_limit,
                   tuner_mode, producer, delivered, consumer_done, image>>
    /\ UNCHANGED otherThanPipe

HasRoomAlways(buf, limit) == TRUE

\* The final prefetch's thread waits while its buffer holds buffer_limit batches.
HasRoom(buf, limit) == Len(buf) < limit

\* The final prefetch's thread asks batch() for a batch only while its buffer
\* holds fewer than buffer_limit batches.
StartBatch ==
    /\ producer = "wait"
    /\ HasRoom(batch_buf, buffer_limit)
    /\ producer' = "fill"
    /\ UNCHANGED <<in_args, epoch, reader_pos, record_buf, shuffle_buf, cur_batch,
                   batch_buf, buffer_limit, tuner_mode, delivered, consumer_done, image>>
    /\ UNCHANGED otherThanPipe

\* shuffle(): fills its buffer from upstream up to shuffle_buffer records.
ShuffleFill ==
    /\ producer = "fill"
    /\ in_args.is_training
    /\ Cardinality(shuffle_buf) < in_args.shuffle_buffer
    /\ record_buf # <<>>
    /\ shuffle_buf' = shuffle_buf \cup {Head(record_buf)}
    /\ record_buf' = Tail(record_buf)
    /\ UNCHANGED <<in_args, epoch, reader_pos, cur_batch, batch_buf, buffer_limit,
                   tuner_mode, producer, delivered, consumer_done, image>>
    /\ UNCHANGED otherThanPipe

\* map(parse_record_fn) and batch(batch_size): record r joins the group; with
\* a group of batch_size records batch() returns it to the final prefetch's
\* thread.
MapAndBatch(r) ==
    /\ image' \in parse_record_fn(in_args)
    /\ cur_batch' = Append(cur_batch, r)
    /\ producer' = IF Len(cur_batch) + 1 = in_args.batch_size THEN "push" ELSE "fill"
    /\ UNCHANGED batch_buf

\* The final prefetch's thread takes its buffer's lock and appends the batch
\* batch() returned; then it waits for room again.
PushBatch ==
    /\ producer = "push"
    /\ batch_buf' = Append(batch_buf, cur_batch)
    /\ cur_batch' = <<>>
    /\ producer' = "wait"
    /\ UNCHANGED <<in_args, epoch, reader_pos, record_buf, shuffle_buf, buffer_limit,
                   tuner_mode, delivered, consumer_done, image>>
    /\ UNCHANGED otherThanPipe

\* shuffle(): once its buffer is full, or upstream has ended, it yields one of
\* the records it holds, chosen at random.
ShuffleEmit ==
    /\ producer = "fill"
    /\ in_args.is_training
    /\ shuffle_buf # {}
    /\ Cardinality(shuffle_buf) = in_args.shuffle_buffer \/ UpstreamExhausted
    /\ \E r \in shuffle_buf :
          /\ shuffle_buf' = shuffle_buf \ {r}
          /\ MapAndBatch(r)
    /\ UNCHANGED <<in_args, epoch, reader_pos, record_buf, buffer_limit, tuner_mode,
                   delivered, consumer_done>>
    /\ UNCHANGED otherThanPipe

\* Without shuffle (is_training false) records pass on in the order read.
PassRecord ==
    /\ producer = "fill"
    /\ ~in_args.is_training
    /\ record_buf # <<>>
    /\ record_buf' = Tail(record_buf)
    /\ MapAndBatch(Head(record_buf))
    /\ UNCHANGED <<in_args, epoch, reader_pos, shuffle_buf, buffer_limit, tuner_mode,
                   delivered, consumer_done>>
    /\ UNCHANGED otherThanPipe

EpochOverAtReader == UpstreamExhausted

\* The stream below repeat() has ended: shuffle() sits below repeat(), so it
\* ends only once upstream has ended and its buffer is drained.
EpochOver == UpstreamExhausted /\ shuffle_buf = {}

\* repeat(num_epochs): when the stream below it ends it is started again.
NextEpoch ==
    /\ producer = "fill"
    /\ EpochOver
    /\ epoch < in_args.num_epochs
    /\ epoch' = epoch + 1
    /\ reader_pos' = 1
    /\ UNCHANGED <<in_args, record_buf, shuffle_buf, cur_batch, batch_buf, buffer_limit,
                   tuner_mode, producer, delivered, consumer_done, image>>
    /\ UNCHANGED otherThanPipe

KeepRemainderAlways(group, drop) == group # <<>>

KeepRemainderNever(group, drop) == FALSE

\* batch(): whether the undersized group left at the end is emitted.
KeepRemainder(group, drop) == group # <<>> /\ ~drop

\* batch() finds the end of the last repetition: it returns the undersized
\* group it holds unless drop_remainder; with nothing to return it reports
\* the end of the sequence and the final prefetch's thread finishes.
EndOfInput ==
    /\ producer = "fill"
    /\ EpochOver
    /\ epoch = in_args.num_epochs
    /\ IF KeepRemainder(cur_batch, in_args.drop_remainder)
       THEN /\ producer' = "push"
            /\ UNCHANGED cur_batch
       ELSE /\ producer' = "end"
            /\ cur_batch' = <<>>
    /\ UNCHANGED <<in_args, epoch, reader_pos, record_buf, shuffle_buf, batch_buf,
                   buffer_limit, tuner_mode, delivered, consumer_done, image>>
    /\ UNCHANGED otherThanPipe

\* The prefetch autotuner's RecordConsumption(size): after the buffer was
\* seen full and then empty, the depth doubles.
RecordConsumption(size) ==
    IF tuner_mode = "upswing"
    THEN /\ tuner_mode' = IF size = buffer_limit THEN "downswing" ELSE "upswing"
         /\ UNCHANGED buffer_limit
    ELSE IF size = 0 /\ 2 * buffer_limit <= MaxPrefetch
         THEN /\ buffer_limit' = 2 * buffer_limit
              /\ tuner_mode' = "upswing"
         ELSE UNCHANGED <<buffer_limit, tuner_mode>>

\* get_next with a batch in the buffer: it is returned.
GetNext ==
    /\ batch_buf # <<>>
    /\ RecordConsumption(Len(batch_buf))
    /\ delivered' = Append(delivered, Head(batch_buf))
    /\ batch_buf' = Tail(batch_buf)
    /\ UNCHANGED <<in_args, epoch, reader_pos, record_buf, shuffle_buf, cur_batch,
                   producer, consumer_done, image>>
    /\ UNCHANGED otherThanPipe

\* get_next with the buffer empty and the producer still running: the
\* consumer waits, and the autotuner records the empty buffer.
FindEmpty ==
    /\ batch_buf = <<>>
    /\ producer # "end"
    /\ tuner_mode = "downswing" /\ 2 * buffer_limit <= MaxPrefetch
    /\ RecordConsumption(0)
    /\ UNCHANGED <<in_args, epoch, reader_pos, record_buf, shuffle_buf, cur_batch,
                   batch_buf, producer, delivered, consumer_done, image>>
    /\ UNCHANGED otherThanPipe

\* get_next with the buffer empty and the producer finished: end of sequence.
EndOfSequence ==
    /\ batch_buf = <<>>
    /\ producer = "end"
    /\ ~consumer_done
    /\ consumer_done' = TRUE
    /\ UNCHANGED <<in_args, epoch, reader_pos, record_buf, shuffle_buf, cur_batch,
                   batch_buf, buffer_limit, tuner_mode, producer, delivered, image>>
    /\ UNCHANGED otherThanPipe

PipeNext ==
    \/ ReadRecord
    \/ StartBatch
    \/ ShuffleFill
    \/ ShuffleEmit
    \/ PassRecord
    \/ PushBatch
    \/ NextEpoch
    \/ EndOfInput
    \/ GetNext
    \/ FindEmpty
    \/ EndOfSequence

PipeArgs ==
    [is_training : BOOLEAN, num_records : 0..MaxRecords, batch_size : 1..MaxBatch,
     shuffle_buffer : 1..MaxShuffle, num_epochs : 1..MaxEpochs,
     drop_remainder : BOOLEAN, parse_record_fn : {"caller"}]

\* input_fn with a caller's parse_record_fn.
PipeInit ==
    /\ in_args \in PipeArgs
    /\ PipeStart
    /\ LRIdle
    /\ TrainIdle
    /\ RunIdle
    /\ ModelIdle
    /\ MetricIdle

SpecPipe == PipeInit /\ [][PipeNext]_vars

ProducerStep ==
    \/ StartBatch \/ ShuffleFill \/ ShuffleEmit \/ PassRecord \/ PushBatch
    \/ NextEpoch \/ EndOfInput

ConsumerStep == GetNext \/ FindEmpty \/ EndOfSequence

\* The two prefetch threads and the consumer are threads of the operating
\* system: each keeps running while it has a step to take.
SpecPipeLive ==
    /\ PipeInit /\ [][PipeNext]_vars
    /\ WF_vars(ReadRecord) /\ WF_vars(ProducerStep) /\ WF_vars(ConsumerStep)

\* input_fn with the default parse_record_fn: every evaluation input of the
\* bounds, and the training inputs of at most MaxParseRecords records and
\* one repetition (each training record has 81 possible crops).
MaxParseRecords == 2

ParseArgs ==
    {a \in [is_training : BOOLEAN, num_records : 0..MaxRecords, batch_size : 1..MaxBatch,
            shuffle_buffer : 1..MaxShuffle, num_epochs : 1..MaxEpochs,
            drop_remainder : BOOLEAN, parse_record_fn : {"parse_record"}] :
        a.is_training => a.num_records <= MaxParseRecords /\ a.num_epochs = 1}

ParseInit ==
    /\ in_args \in ParseArgs
    /\ PipeStart
    /\ LRIdle
    /\ TrainIdle
    /\ RunIdle
    /\ ModelIdle
    /\ MetricIdle

SpecParse == ParseInit /\ [][PipeNext]_vars

-----------------------------------------------------------------------------
TrainInit ==
    /\ tr_args \in TrainArgs
    /\ TrainStart
    /\ LRIdle
    /\ PipeIdle
    /\ RunIdle
    /\ ModelIdle
    /\ MetricIdle

SpecTrain == TrainInit /\ [][TrainNext]_vars

RunInit ==
    /\ flags \in RunFlags
    /\ RunStart
    /\ LRIdle
    /\ PipeIdle
    /\ TrainIdle
    /\ ModelIdle
    /\ MetricIdle

SpecRun == RunInit /\ [][RunNext]_vars

ModelInit ==
    /\ model_args \in ModelArgs
    /\ ModelStart
    /\ LRIdle
    /\ PipeIdle
    /\ TrainIdle
    /\ RunIdle
    /\ MetricIdle

SpecModel == ModelInit /\ [][Cifar10ModelInit]_vars

MetricInit ==
    /\ MetricStart
    /\ LRIdle
    /\ PipeIdle
    /\ TrainIdle
    /\ RunIdle
    /\ ModelIdle

SpecMetric == MetricInit /\ [][UpdateMetrics]_vars

LRInit ==
    /\ lr_args \in LRArgs
    /\ LRStart
    /\ PipeIdle
    /\ TrainIdle
    /\ RunIdle
    /\ ModelIdle
    /\ MetricIdle

SpecLR == LRInit /\ [][LRNext]_vars

-----------------------------------------------------------------------------
(* Properties of the learning-rate schedule.                               *)

\* The exact value of floor(E[k] * num_images / batch_size).
ExactBoundary(a, k) == (a.boundary_epochs[k] * a.num_images) \div a.batch_size

\* boundaries_in_steps[k] = int(num_images / batch_size * E[k]) as the
\* float64 arithmetic of the schedule gives it.
boundaries_in_steps(a) == boundaries(a)

\* The float64 boundary is the exact one, or one less where the exact
\* product is an integer and batch_size does not divide num_images.
BoundariesNearExact(a) ==
    \A k \in 1..Len(a.boundary_epochs) :
        \/ boundaries_in_steps(a)[k] = ExactBoundary(a, k)
        \/ /\ boundaries_in_steps(a)[k] = ExactBoundary(a, k) - 1
           /\ (a.boundary_epochs[k] * a.num_images) % a.batch_size = 0
           /\ a.num_images % a.batch_size # 0

NumBelow(a, s) == Cardinality({k \in 1..Len(a.boundary_epochs) : boundaries_in_steps(a)[k] < s})
NumAtOrBelow(a, s) == Cardinality({k \in 1..Len(a.boundary_epochs) : boundaries_in_steps(a)[k] <= s})

ScaledBase(a) == Rat(a.base_lr[1] * a.batch_size, a.base_lr[2] * a.batch_denom)

\* base_lr * batch_size / batch_denom * D[i], D indexed from 0
DecayedRate(a, i) == RMul(ScaledBase(a), a.decay_rates[i + 1])

\* 5 epochs of steps
FiveEpochs(a) == (5 * a.num_images) \div a.batch_size

Evaluated == lr_step >= 0

(* C9 (as amended): without warmup, rate(step) = base_lr * batch_size /    *)
(* batch_denom * D[i] where i is the number of boundaries strictly below   *)
(* step, so the rate at a step equal to a boundary is still the rate of    *)
(* the interval before it; a boundary is int(num_images / batch_size * E)  *)
(* in float64, which is the exact floor or, in places, one less; with      *)
(* batch_size = 128, batch_denom = 32 and base_lr = 0.1 the initial rate   *)
(* is 0.4.                                                                 *)
C9_StepDecay ==
    (Evaluated /\ ~lr_args.warmup) =>
        /\ lr_rate = DecayedRate(lr_args, NumBelow(lr_args, lr_step))
        /\ BoundariesNearExact(lr_args)
        /\ (lr_args.batch_size = 128 /\ lr_args.batch_denom = 32
              /\ lr_args.base_lr = Rat(1, 10))
             => /\ initial_learning_rate(lr_args) = Rat(4, 10)
                /\ (lr_step = 0 /\ lr_args.decay_rates[1] = RInt(1)) => lr_rate = Rat(4, 10)

\* The schedule was evaluated, without warmup, at a step equal to a boundary
\* where the rates on both sides differ.
C9_Witness ==
    /\ Evaluated /\ ~lr_args.warmup
    /\ \E k \in 1..Len(lr_args.boundary_epochs) :
          /\ boundaries_in_steps(lr_args)[k] = lr_step
          /\ DecayedRate(lr_args, NumBelow(lr_args, lr_step))
                # DecayedRate(lr_args, NumAtOrBelow(lr_args, lr_step))

(* C9 as stated: i is the number of boundaries <= step, so the decayed     *)
(* rate already applies at the step equal to a boundary.                   *)
C9_Original ==
    (Evaluated /\ ~lr_args.warmup) =>
        lr_rate = DecayedRate(lr_args, NumAtOrBelow(lr_args, lr_step))

(* C10 (as amended): with warmup and warmup_steps = int(5 * num_images /   *)
(* batch_size) >= 1, rate(0) = 0; for every step < warmup_steps the rate   *)
(* is the linear ramp step / warmup_steps of initial_learning_rate =       *)
(* base_lr * batch_size / batch_denom, whatever the decay table; for every *)
(* step >= warmup_steps, warmup_steps included, it is the un-warmed        *)
(* step-decay rate of that step.                                           *)
C10_Warmup ==
    (Evaluated /\ lr_args.warmup) =>
        /\ (lr_step = 0 /\ FiveEpochs(lr_args) >= 1) => lr_rate = RInt(0)
        /\ lr_step < FiveEpochs(lr_args)
             => lr_rate = Rat(ScaledBase(lr_args)[1] * lr_step,
                              ScaledBase(lr_args)[2] * FiveEpochs(lr_args))
        /\ lr_step >= FiveEpochs(lr_args)
             => lr_rate = DecayedRate(lr_args, NumBelow(lr_args, lr_step))

\* The schedule was evaluated inside the warmup ramp with a decay boundary
\* below warmup_steps.
C10_Witness ==
    /\ Evaluated /\ lr_args.warmup
    /\ 0 < lr_step /\ lr_step < FiveEpochs(lr_args)
    /\ \E k \in 1..Len(lr_args.boundary_epochs) :
          boundaries_in_steps(lr_args)[k] < FiveEpochs(lr_args)

(* C10 as stated: below warmup_steps the rate is the linear ramp from 0 to *)
(* the step-decay rate that applies at warmup_steps, and rate(warmup_steps)*)
(* is that step-decay rate, for every placement of the boundaries.         *)
C10_Original ==
    (Evaluated /\ lr_args.warmup) =>
        LET ws == FiveEpochs(lr_args)
            target == DecayedRate(lr_args, NumBelow(lr_args, ws))
        IN  /\ lr_step = 0 => lr_rate = RInt(0)
            /\ lr_step < ws => lr_rate = Rat(target[1] * lr_step, target[2] * ws)
            /\ lr_step = ws => lr_rate = target

-----------------------------------------------------------------------------
(* Properties of the gradient stage.                                       *)

(* C1: in a training step with fine_tune, with loss_scale = 1 and with     *)
(* loss_scale # 1 alike, only parameters of the final (dense) layer are    *)
(* handed to apply_gradients, and every trainable parameter outside the    *)
(* final layer has the same value after the step as before it.             *)
C1_FineTuneFreezes ==
    /\ [](tr_args.fine_tune => applied \subseteq FinalLayer)
    /\ [][tr_args.fine_tune =>
            \A v \in TrainableNames \ FinalLayer : weights'[v] = weights[v]]_vars

\* A fine-tune step on the loss-scaling branch has run and has moved the
\* final layer.
C1_Witness ==
    /\ tr_args.fine_tune /\ tr_args.loss_scale # RInt(1)
    /\ updates >= 1
    /\ applied = FinalLayer
    /\ weights[DENSE_KERNEL] # RInt(1)
    /\ weights[CONV_KERNEL] = RInt(1)

(* C2: global_step never decreases and advances by exactly 1 with each run *)
(* of train_op (one apply_gradients), on every loss-scaling and fine-tune  *)
(* branch: never without an update, never twice for one update.            *)
C2_GlobalStep ==
    /\ [](global_step = tr_args.start_step + updates)
    /\ [][\/ global_step' = global_step /\ updates' = updates
          \/ global_step' = global_step + 1 /\ updates' = updates + 1]_vars

\* Two updates have run from a restored global step.
C2_Witness ==
    /\ updates = 2
    /\ tr_args.start_step > 0
    /\ global_step = tr_args.start_step + 2

-----------------------------------------------------------------------------
(* Properties of the input pipeline.                                       *)

RECURSIVE Flatten(_)
Flatten(batches) ==
    IF batches = <<>> THEN <<>> ELSE Head(batches) \o Flatten(Tail(batches))

\* Every batch batch() has emitted so far, in order: those delivered, those
\* in the final prefetch's buffer and the one its thread is about to push.
Emitted == delivered \o batch_buf \o (IF producer = "push" THEN <<cur_batch>> ELSE <<>>)

TotalRecords == in_args.num_records * in_args.num_epochs

FullBatches == TotalRecords \div in_args.batch_size

Remainder == TotalRecords % in_args.batch_size

(* C3: with drop_remainder every emitted batch has exactly batch_size      *)
(* records and a final undersized group is discarded; without it every     *)
(* batch but the last of the stream has exactly batch_size records and the *)
(* last has between 1 and batch_size.                                      *)
C3_BatchSizes ==
    /\ \A i \in 1..Len(Emitted) :
          /\ Len(Emitted[i]) >= 1 /\ Len(Emitted[i]) <= in_args.batch_size
          /\ Len(Emitted[i]) < in_args.batch_size
               => /\ ~in_args.drop_remainder
                  /\ i = Len(Emitted)
                  /\ Len(Flatten(Emitted)) = TotalRecords
    /\ consumer_done =>
          Len(delivered) = FullBatches
                           + (IF Remainder > 0 /\ ~in_args.drop_remainder THEN 1 ELSE 0)

\* A stream with drop_remainder ended with an undersized group discarded and
\* at least one full batch delivered.
C3_Witness ==
    /\ in_args.drop_remainder
    /\ consumer_done
    /\ Remainder > 0
    /\ Len(delivered) >= 1

\* Every record that has left shuffle/repeat/map so far, in order.
EmittedRecords == Flatten(delivered \o batch_buf) \o cur_batch

\* Some record of a later repetition was emitted while a record of the
\* repetition before it was still to come.
Interleaved ==
    \E i \in 1..Len(EmittedRecords) :
        LET e == EmittedRecords[i][2]
        IN  /\ e > 1
            /\ Cardinality({j \in 1..(i - 1) : EmittedRecords[j][2] = e - 1})
                 < in_args.num_records

(* C4 (as amended): in training mode the shuffle window is confined to one *)
(* epoch (shuffle is applied before repeat): in every execution each       *)
(* record of epoch k is emitted before any record of epoch k+1.            *)
C4_EpochsDoNotInterleave ==
    in_args.is_training =>
        /\ ~Interleaved
        /\ \A i, j \in 1..Len(EmittedRecords) :
              i < j => EmittedRecords[i][2] <= EmittedRecords[j][2]

\* A training stream of several records has emitted a record of the second epoch.
C4_Witness ==
    /\ in_args.is_training
    /\ in_args.num_records >= 2 /\ in_args.shuffle_buffer >= 2
    /\ \E i \in 1..Len(EmittedRecords) : EmittedRecords[i][2] = 2

(* C4 as stated: a training pipeline with num_epochs >= 2 reaches a state  *)
(* in which a record of epoch k+1 was emitted before some record of epoch  *)
(* k.                                                                      *)
C4_Original ==
    (in_args.is_training /\ in_args.num_epochs >= 2 /\ in_args.num_records >= 2)
        => <>Interleaved

BatchesOwed ==
    FullBatches + (IF Remainder > 0 /\ ~in_args.drop_remainder THEN 1 ELSE 0)

(* C7: the number of prefetched batches never exceeds the prefetch depth;  *)
(* the producer takes no step while the buffer is full; the consumer can   *)
(* take a batch whenever the buffer is not empty; and while the records    *)
(* that remain still make up a batch, the consumer eventually receives it  *)
(* (every batch that is owed is eventually delivered).                     *)
C7_BoundedPrefetch ==
    /\ [](Len(batch_buf) <= buffer_limit)
    /\ [][Len(batch_buf) >= buffer_limit =>
            /\ UNCHANGED <<producer, cur_batch, shuffle_buf, epoch>>
            /\ Len(batch_buf') <= Len(batch_buf)]_vars
    /\ [](batch_buf # <<>> => ENABLED GetNext)
    /\ (Len(delivered) < BatchesOwed) ~> (Len(delivered) = BatchesOwed)

\* The buffer is full at its grown depth, the producer waits, and batches are
\* still owed.
C7_Witness ==
    /\ buffer_limit = 2
    /\ Len(batch_buf) = buffer_limit
    /\ producer = "wait"
    /\ Len(delivered) + Len(batch_buf) < BatchesOwed

ExpectedRecord(k) ==
    <<((k - 1) % in_args.num_records) + 1, ((k - 1) \div in_args.num_records) + 1>>

ExpectedBatches ==
    [i \in 1..BatchesOwed |->
        [k \in 1..(IF i <= FullBatches THEN in_args.batch_size ELSE Remainder) |->
            ExpectedRecord((i - 1) * in_args.batch_size + k)]]

(* C8: with is_training false the pipeline is one deterministic pass:      *)
(* records come in file order, no image is padded and every crop is the    *)
(* one at offset (0, 0), so the sequence of batches is a function of the   *)
(* shards, batch_size, num_epochs and drop_remainder alone.                *)
C8_EvalDeterministic ==
    ~in_args.is_training =>
        /\ image \in {NoImage,
                      [padded |-> FALSE, height |-> HEIGHT, width |-> WIDTH,
                       oy |-> 0, ox |-> 0]}
        /\ Len(Emitted) <= BatchesOwed
        /\ Emitted = SubSeq(ExpectedBatches, 1, Len(Emitted))
        /\ \A k \in 1..Len(EmittedRecords) : EmittedRecords[k] = ExpectedRecord(k)
        /\ consumer_done => delivered = ExpectedBatches

\* An evaluation pass over several records ended, its last image cropped.
C8_Witness ==
    /\ ~in_args.is_training
    /\ in_args.num_records = 2 /\ in_args.num_epochs = 2 /\ in_args.batch_size = 3
    /\ consumer_done
    /\ Len(delivered) = 2
    /\ image.height = HEIGHT

-----------------------------------------------------------------------------
(* Properties of the run.                                                  *)

\* The step budget of the train_epochs flag, in steps.
StepBudget == (flags.train_epochs * NUM_IMAGES_TRAIN) \div flags.batch_size

BudgetReached == steps_done >= StepBudget

ThresholdReached == \E t \in flags.stop_threshold : metric >= t

(* C5: a training run stops at the first step boundary at which the step   *)
(* budget of train_epochs is reached or, with stop_threshold set, the      *)
(* metric has reached stop_threshold: it runs no optimizer update after    *)
(* that, and does not stop before.                                         *)
C5_StopsAtBudgetOrThreshold ==
    /\ []((run_pc = "returned" /\ flags.mode = "train")
            => (BudgetReached \/ ThresholdReached))
    /\ [][(BudgetReached \/ ThresholdReached) => steps_done' = steps_done]_vars

(* C6: a configuration error (resnet_size not 6n+2) is raised before any   *)
(* step of input-pipeline construction (get_filenames, building the        *)
(* dataset) has happened.                                                  *)
C6_ConfigErrorBeforePipeline ==
    \A i \in 1..Len(events) :
        events[i] = "ValueError" =>
            \A j \in 1..(i - 1) : events[j] \notin {"get_filenames", "dataset"}

-----------------------------------------------------------------------------
(* C11: constructing Cifar10Model succeeds exactly when resnet_size is     *)
(* 6n+2 for an integer n, and then each of the three block groups has n    *)
(* blocks (56 gives 9); for any other resnet_size the constructor raises   *)
(* and no model is built (55 raises).                                      *)

Constructed == model # {} \/ raised # ""

SizeIndices == {n \in (-MaxResnetSize)..MaxResnetSize : model_args.resnet_size = 6 * n + 2}

C11_Cifar10ModelSize ==
    /\ Constructed =>
          /\ (SizeIndices # {}) <=> (model # {})
          /\ (SizeIndices = {}) <=> (raised # "")
          /\ \A m \in model : \A n \in SizeIndices : m.block_sizes = <<n, n, n>>
    /\ (Constructed /\ model_args.resnet_size = 56) =>
          \E m \in model : m.block_sizes = <<9, 9, 9>>
    /\ (Constructed /\ model_args.resnet_size = 55) =>
          model = {} /\ raised = "ValueError"

C11_Witness ==
    /\ model_args.resnet_size = 56
    /\ \E m \in model : m.block_sizes = <<9, 9, 9>>

-----------------------------------------------------------------------------
(* C12: after any sequence of metric updates the reported accuracy is the  *)
(* number of examples seen whose highest-scoring class (the first one, if  *)
(* several share the highest score) is the label, over the number of       *)
(* examples seen; the top-5 accuracy is the fraction whose label is among  *)
(* five highest-scoring classes; the accuracy is 1 after N all-correct     *)
(* predictions, and neither tally of correct examples exceeds its count.   *)

Score(e, c) == e[1][c + 1]

\* The label scores at least as much as every class, and more than every
\* class before it.
LabelIsHighest(e) ==
    \A c \in Classes :
        /\ Score(e, e[2]) >= Score(e, c)
        /\ c < e[2] => Score(e, e[2]) > Score(e, c)

\* Some five classes that nothing outside them outscores include the label.
LabelInFiveHighest(e) ==
    \E five \in SUBSET Classes :
        /\ Cardinality(five) = 5
        /\ e[2] \in five
        /\ \A c \in five : \A d \in Classes \ five : Score(e, c) >= Score(e, d)

NumHighest == Cardinality({i \in 1..Len(examples) : LabelIsHighest(examples[i])})

NumInFive == Cardinality({i \in 1..Len(examples) : LabelInFiveHighest(examples[i])})

C12_StreamingAccuracy ==
    /\ acc_count = Len(examples) /\ top5_count = Len(examples)
    /\ acc_total = NumHighest /\ top5_total = NumInFive
    /\ acc_total <= acc_count /\ top5_total <= top5_count
    /\ Len(examples) > 0 =>
          /\ accuracy[1] * Len(examples) = NumHighest * accuracy[2]
          /\ accuracy_top_5[1] * Len(examples) = NumInFive * accuracy_top_5[2]
          /\ (NumHighest = Len(examples)) => accuracy = <<1, 1>>

C12_Witness ==
    /\ Len(examples) = 2
    /\ examples[1][1] # examples[2][1]
    /\ NumHighest = 2
    /\ accuracy = <<1, 1>>
    /\ accuracy_top_5 = <<1, 1>>

-----------------------------------------------------------------------------
(* C13: in training mode without drop_remainder, once the stream has been  *)
(* consumed to its end every one of the R input records has been emitted   *)
(* exactly num_epochs times, once in each repetition, so num_epochs * R    *)
(* records were emitted in all; before the end no record has been emitted  *)
(* more than num_epochs times.                                             *)

DeliveredRecords == Flatten(delivered)

TimesDelivered(r) ==
    Cardinality({k \in 1..Len(DeliveredRecords) : DeliveredRecords[k][1] = r})

C13_EachRecordOncePerEpoch ==
    (in_args.is_training /\ ~in_args.drop_remainder) =>
        /\ \A r \in 1..in_args.num_records : TimesDelivered(r) <= in_args.num_epochs
        /\ \A k \in 1..Len(DeliveredRecords) :
               DeliveredRecords[k][1] \in 1..in_args.num_records
        /\ consumer_done =>
              /\ \A r \in 1..in_args.num_records :
                     /\ TimesDelivered(r) = in_args.num_epochs
                     /\ \A e \in 1..in_args.num_epochs :
                            Cardinality({k \in 1..Len(DeliveredRecords) :
                                            DeliveredRecords[k] = <<r, e>>}) = 1
              /\ Len(DeliveredRecords) = in_args.num_epochs * in_args.num_records

C13_Witness ==
    /\ in_args.is_training /\ ~in_args.drop_remainder
    /\ in_args.num_records = 2 /\ in_args.num_epochs = 2
    /\ in_args.shuffle_buffer = 2 /\ in_args.batch_size = 3
    /\ consumer_done
    /\ Len(delivered) = 2
    /\ DeliveredRecords[1] = <<2, 1>>
    /\ DeliveredRecords[4] = <<1, 2>>

=============================================================================
